---- MODULE Spec2Model ----
(***************************************************************************)
(* Model of librespot's TokenProvider (core/src/token.rs): a cache of      *)
(* keymaster tokens shared by concurrent get_token calls; and of the       *)
(* availability decision for an audio item (metadata/src/audio/item.rs).   *)
(*                                                                         *)
(* Every `self.lock(|inner| ...)` of the source is one atomic step.  What  *)
(* a call does between two lock sections is a step of its own: the clock   *)
(* read of is_expired, the sending of the request, the `.await` on it and  *)
(* the construction of the token.  Other callers and the clock interleave  *)
(* between any two steps.                                                  *)
(*                                                                         *)
(* Sequences are 1-based here: the source's index i is position i + 1, and *)
(* position 0 stands for None.                                             *)
(***************************************************************************)
EXTENDS Integers, Sequences, FiniteSets, TLC

VARIABLES
    tokens,     \* TokenProviderInner.tokens: Vec<Token>
    guard,      \* holder of the component's mutex, Free when nobody holds it
    now,        \* Instant::now(), in seconds
    pc,         \* per caller: position inside get_token
    scopes,     \* per caller: the `scopes` argument
    index,      \* per caller: the `index` bound by `if let Some(index)`
    cached_token,   \* per caller: the local `cached_token` (a clone)
    token,      \* per caller: the local `token` built by Token::new
    sent,       \* per caller: requests sent by the running call
    response,   \* per caller: `response`, what request.await produced
    result,     \* per caller: what get_token returned (or that it panicked)
    audio_item,     \* item.rs: the AudioItem (Track or Episode)
    user_data,      \* item.rs: the session's UserData (country, attributes)
    availability,   \* item.rs: the item's Availabilities
    restrictions,   \* item.rs: the item's Restrictions
    today,          \* item.rs: Date::now_utc()
    verdict         \* item.rs: the AudioItemAvailability last computed

tokenVars ==
    <<tokens, guard, now, pc, scopes, index, cached_token, token, sent,
      response, result>>

itemVars == <<audio_item, user_data, availability, restrictions, today, verdict>>

vars ==
    <<tokens, guard, now, pc, scopes, index, cached_token, token, sent,
      response, result,
      audio_item, user_data, availability, restrictions, today, verdict>>

(***************************************************************************)
(* Bounds of the model.                                                    *)
(***************************************************************************)
MaxTime == 2
MaxTokens == 2
MaxRestrictions == 2
MaxDate == 1

Callers == {"c1", "c2"}

\* The guard behind self.lock.  The component! macro that builds it is not
\* part of the sources at hand, so the guard is the one of the specification
\* (section 5): a single mutual-exclusion guard, held for the length of one
\* closure and free again when the closure ends, also when it ends by a panic
\* (no poisoning).
Free == "free"

Scope == {"a", "b"}

\* Token::EXPIRY_THRESHOLD = Duration::from_secs(10)
EXPIRY_THRESHOLD == 10

\* `response.status_code == 200`
STATUS_OK == 200

\* scope lists a caller may pass to get_token
RequestedScopes == {<< >>, <<"a">>, <<"a", "b">>}

\* the scope lists each caller passes: the first caller any of them, the
\* second the one-element list
Requests(c) == IF c = "c1" THEN RequestedScopes ELSE {<<"a">>}

\* scope lists the keymaster may grant ("scope" of the payload)
GrantedScopes == {<<"a">>, <<"b", "a">>}

(***************************************************************************)
(* Seconds.  TokenData.expires_in is a u64 and Token.expires_in the        *)
(* Duration made of it.  A number of seconds is written [secs |-> n]; the  *)
(* values at the top of the u64 range, which the checker's integers cannot *)
(* hold, are written by their distance from u64::MAX:                      *)
(* [below_u64_max |-> k] is u64::MAX - k seconds.                          *)
(***************************************************************************)
Secs(n) == [secs |-> n]
U64_MAX == [below_u64_max |-> 0]
IsSecs(d) == "secs" \in DOMAIN d

\* "expiresIn" values of the payload: a lifetime below the threshold, one
\* above it (fresh when issued, at its limit a second later, expired after),
\* and the largest the field can carry
ExpiresInValues ==
    {Secs(EXPIRY_THRESHOLD - 1), Secs(EXPIRY_THRESHOLD + 1), U64_MAX}

AccessTokens == {"abc"}

(***************************************************************************)
(* Payload elements (Vec<u8>) by what the code can do with them:           *)
(* bytes that are not UTF-8, text that is not a TokenData, a TokenData.    *)
(***************************************************************************)
NotUtf8 == [kind |-> "not_utf8"]
NotJson == [kind |-> "not_json"]
\* the TokenData the keymaster may send: every lifetime for one scope, and
\* the lifetime above the threshold for every scope list
TokenJson ==
    {data \in [kind : {"json"}, expiresIn : ExpiresInValues,
               accessToken : AccessTokens, scope : GrantedScopes] :
        data.scope = <<"a">> \/ data.expiresIn = Secs(EXPIRY_THRESHOLD + 1)}

\* A payload element that decodes to a long-lived token for both scopes.
SomeTokenJson ==
    [kind |-> "json", expiresIn |-> Secs(EXPIRY_THRESHOLD + 1),
     accessToken |-> "abc", scope |-> <<"b", "a">>]

\* payload collections: empty, bytes that are no text, a TokenData, or text
\* that is no TokenData followed by a TokenData
Payloads ==
    {<< >>, <<NotUtf8>>, <<NotJson, SomeTokenJson>>} \cup {<<e>> : e \in TokenJson}

\* What `request.await` yields: Err(MercuryError), or a MercuryResponse with
\* its status_code and payload (the failure status with a payload that would
\* decode).
TransportError == [kind |-> "error"]
Responses ==
    {TransportError}
        \cup [kind : {"response"}, status_code : {STATUS_OK}, payload : Payloads]
        \cup [kind : {"response"}, status_code : {404},
              payload : {<<SomeTokenJson>>}]

NoResponse == [kind |-> "none"]

\* The first payload element decodes to a TokenData.
BearsToken(resp) ==
    /\ resp.kind = "response"
    /\ Len(resp.payload) > 0
    /\ resp.payload[1].kind = "json"

\* Results of a call.
NoResult == [kind |-> "none"]
Err == [kind |-> "Err", error |-> "MercuryError"]
Panic == [kind |-> "Panic"]
Ok(value) == [kind |-> "Ok", token |-> value]

\* a local that holds no token
NoToken == [kind |-> "none"]

(***************************************************************************)
(* Token                                                                   *)
(***************************************************************************)

\* std::time::Duration - Duration, the subtrahend a small number of seconds:
\* panics when the result would be negative.
DurationSub(a, b) ==
    IF IsSecs(a)
    THEN IF a.secs < b THEN [panic |-> TRUE, value |-> Secs(0)]
         ELSE [panic |-> FALSE, value |-> Secs(a.secs - b)]
    ELSE [panic |-> FALSE, value |-> [below_u64_max |-> a.below_u64_max + b]]

\* std::time::Instant + Duration: panics ("overflow when adding duration to
\* instant") when the sum is beyond what an Instant can hold, which has
\* signed 64-bit seconds: so for every Duration at the top of the u64 range.
InstantAdd(instant, d) ==
    IF IsSecs(d)
    THEN [panic |-> FALSE, value |-> instant + d.secs]
    ELSE [panic |-> TRUE, value |-> 0]

\* Token::new on a decoded TokenData (token.rs:93-101)
TokenNew(data, instant) ==
    [expires_in |-> data.expiresIn,
     access_token |-> data.accessToken,
     scopes |-> data.scope,
     timestamp |-> instant]

\* is_expired with the comparison turned round
is_expired_reversed(self, instant) ==
    LET d == DurationSub(self.expires_in, EXPIRY_THRESHOLD)
        limit == InstantAdd(self.timestamp, d.value)
    IN  IF d.panic \/ limit.panic
        THEN [panic |-> TRUE, value |-> FALSE]
        ELSE [panic |-> FALSE, value |-> limit.value > instant]

\* Token::is_expired (token.rs:103-105):
\*   self.timestamp + (self.expires_in - EXPIRY_THRESHOLD) < Instant::now()
\* The subtraction and the addition can each panic.
is_expired(self, instant) ==
    LET d == DurationSub(self.expires_in, EXPIRY_THRESHOLD)
        limit == InstantAdd(self.timestamp, d.value)
    IN  IF d.panic \/ limit.panic
        THEN [panic |-> TRUE, value |-> FALSE]
        ELSE [panic |-> FALSE, value |-> limit.value < instant]

\* Token::in_scope (token.rs:107-114): linear scan of self.scopes
RECURSIVE in_scope_from(_, _, _)
in_scope_from(self, scope, i) ==
    IF i > Len(self.scopes) THEN FALSE
    ELSE IF self.scopes[i] = scope THEN TRUE
    ELSE in_scope_from(self, scope, i + 1)

in_scope(self, scope) == in_scope_from(self, scope, 1)

\* in_scopes that looks at the first requested scope only
in_scopes_first_only(self, requested) ==
    Len(requested) = 0 \/ in_scope(self, requested[1])

\* Token::in_scopes (token.rs:116-123): false at the first missing scope
RECURSIVE in_scopes_from(_, _, _)
in_scopes_from(self, requested, i) ==
    IF i > Len(requested) THEN TRUE
    ELSE IF ~in_scope(self, requested[i]) THEN FALSE
    ELSE in_scopes_from(self, requested, i + 1)

in_scopes(self, requested) == in_scopes_from(self, requested, 1)

(***************************************************************************)
(* TokenProvider                                                           *)
(***************************************************************************)

\* find_token that keeps scanning and answers the last covering position
RECURSIVE find_token_last_from(_, _, _)
find_token_last_from(cache, requested, i) ==
    IF i = 0 THEN 0
    ELSE IF in_scopes_from(cache[i], requested, 1) THEN i
    ELSE find_token_last_from(cache, requested, i - 1)

find_token_last(cache, requested) == find_token_last_from(cache, requested, Len(cache))

\* TokenProvider::find_token (token.rs:35-44): first position whose token
\* covers `requested`, 0 for None.
RECURSIVE find_token_from(_, _, _)
find_token_from(cache, requested, i) ==
    IF i > Len(cache) THEN 0
    ELSE IF in_scopes(cache[i], requested) THEN i
    ELSE find_token_from(cache, requested, i + 1)

find_token(cache, requested) == find_token_from(cache, requested, 1)

\* Vec::remove(index): panics when index is out of bounds.
VecRemove(cache, i) ==
    [j \in 1 .. (Len(cache) - 1) |-> IF j < i THEN cache[j] ELSE cache[j + 1]]

\* The handling of a response that forgets to look at the status code
HandleResponse_AnyStatus(resp, instant) ==
    IF resp.kind = "error" THEN [result |-> Err, built |-> << >>]
    ELSE IF Len(resp.payload) = 0 THEN [result |-> Panic, built |-> << >>]
    ELSE LET data == resp.payload[1] IN
        IF data.kind = "not_utf8" THEN [result |-> Panic, built |-> << >>]
        ELSE IF data.kind = "not_json" THEN [result |-> Err, built |-> << >>]
        ELSE [result |-> NoResult, built |-> <<TokenNew(data, instant)>>]

\* The handling of a response from the await up to the lock of the push
\* (token.rs:72-81): the outcome when the call ends here, or the token built
\* by Token::new at `instant`.
HandleResponse(resp, instant) ==
    IF resp.kind = "error" THEN [result |-> Err, built |-> << >>]
    ELSE IF resp.status_code = STATUS_OK THEN
        IF Len(resp.payload) = 0 THEN [result |-> Panic, built |-> << >>]
        ELSE LET data == resp.payload[1] IN
            IF data.kind = "not_utf8" THEN [result |-> Panic, built |-> << >>]
            ELSE IF data.kind = "not_json" THEN [result |-> Err, built |-> << >>]
            ELSE [result |-> NoResult, built |-> <<TokenNew(data, instant)>>]
    ELSE [result |-> Err, built |-> << >>]

\* The answers the model lets the keymaster give: every answer, except that
\* an answer from which a token is built and cached is given only while the
\* cache and the tokens on their way into it stay within MaxTokens.
AnswersFor(cache, pending) ==
    {resp \in Responses :
        \/ Len(cache) + pending < MaxTokens
        \/ HandleResponse(resp, 0).built = << >>}

(***************************************************************************)
(* Audio item availability (metadata/src/audio/item.rs)                    *)
(***************************************************************************)

\* Option<T>
None == [some |-> FALSE]
Some(v) == [some |-> TRUE, value |-> v]

\* UserData.country, and the countries a restriction may list
UserCountries == {"DE", "FR"}
CountryLists == {<<"US", "DE">>}

\* UserData.attributes: a map that may or may not hold "catalogue"
NoAttributes == [k \in {} |-> "premium"]
AttributeMaps ==
    {NoAttributes} \cup {[k \in {"catalogue"} |-> v] : v \in {"free", "premium"}}

UserDatas == [country : UserCountries, attributes : AttributeMaps]

\* Restriction: the catalogues it applies to and its optional country lists
CatalogueLists == {<<"free">>, <<"premium">>, <<"free", "premium">>}
CountryOptions == {None} \cup {Some(l) : l \in CountryLists}
RestrictionValues ==
    [catalogue_strs : CatalogueLists,
     countries_allowed : CountryOptions,
     countries_forbidden : CountryOptions]

\* lists of at most n restrictions
RECURSIVE RestrictionLists(_)
RestrictionLists(n) ==
    IF n = 0 THEN {<< >>}
    ELSE LET shorter == RestrictionLists(n - 1)
         IN  shorter \cup {Append(l, r) : l \in {x \in shorter : Len(x) = n - 1},
                                          r \in RestrictionValues}

\* Availabilities: windows by their start date; dates are days
AvailabilityLists ==
    {<< >>, <<[start |-> 1]>>, <<[start |-> MaxDate + 1]>>,
     <<[start |-> MaxDate + 1], [start |-> 1]>>}

\* AudioItemAvailability = Result<(), UnavailabilityReason>
Available == [kind |-> "Ok"]
Unavailable(reason) == [kind |-> "Err", reason |-> reason]

NoVerdict == [of |-> "none"]
Verdict(of, value) == [of |-> of, value |-> value]

\* list.iter().any(|x| x == wanted)
any_eq(list, wanted) == \E k \in 1 .. Len(list) : list[k] = wanted

\* user_data.attributes.get("catalogue"), "premium" when absent
\* (item.rs:91-94)
user_catalogue(user) ==
    IF "catalogue" \in DOMAIN user.attributes
    THEN user.attributes["catalogue"]
    ELSE "premium"

\* allowed_for_user with the forbid-list consulted before the allow-list
RECURSIVE allowed_for_user_forbidden_first_from(_, _, _)
allowed_for_user_forbidden_first_from(user, list, k) ==
    IF k > Len(list) THEN Available
    ELSE LET restriction == list[k] IN
        IF ~any_eq(restriction.catalogue_strs, user_catalogue(user))
        THEN allowed_for_user_forbidden_first_from(user, list, k + 1)
        ELSE IF restriction.countries_forbidden.some
        THEN IF any_eq(restriction.countries_forbidden.value, user.country)
             THEN Unavailable("Blacklisted")
             ELSE Available
        ELSE IF restriction.countries_allowed.some
        THEN IF any_eq(restriction.countries_allowed.value, user.country)
             THEN Available
             ELSE Unavailable("NotWhitelisted")
        ELSE allowed_for_user_forbidden_first_from(user, list, k + 1)

allowed_for_user_forbidden_first(user, list) ==
    allowed_for_user_forbidden_first_from(user, list, 1)

\* The loop of allowed_for_user from position k on (item.rs:96-125): the
\* restrictions naming the user's catalogue, in order; the first with an
\* allow-list or a forbid-list returns.
RECURSIVE allowed_for_user_from(_, _, _)
allowed_for_user_from(user, list, k) ==
    IF k > Len(list) THEN Available  \* no restrictions in place
    ELSE LET restriction == list[k] IN
        IF ~any_eq(restriction.catalogue_strs, user_catalogue(user))
        THEN allowed_for_user_from(user, list, k + 1)
        ELSE IF restriction.countries_allowed.some
        THEN IF any_eq(restriction.countries_allowed.value, user.country)
             THEN Available
             ELSE Unavailable("NotWhitelisted")
        ELSE IF restriction.countries_forbidden.some
        THEN IF any_eq(restriction.countries_forbidden.value, user.country)
             THEN Unavailable("Blacklisted")
             ELSE Available
        ELSE allowed_for_user_from(user, list, k + 1)

\* allowed_for_user (item.rs:89-126)
allowed_for_user(user, list) == allowed_for_user_from(user, list, 1)

\* available (item.rs:128-142): no windows, or some window has started
available(windows, date) ==
    IF Len(windows) = 0 THEN Available
    ELSE IF ~(\E k \in 1 .. Len(windows) : date >= windows[k].start)
    THEN Unavailable("Embargo")
    ELSE Available

\* available_for_user with the restrictions checked before the windows
available_for_user_restrictions_first(user, windows, list, date) ==
    LET allowed == allowed_for_user(user, list)
        window == available(windows, date)
    IN  IF allowed.kind = "Err" THEN allowed
        ELSE IF window.kind = "Err" THEN window
        ELSE Available

\* available_for_user (item.rs:144-152): available(..)?; allowed_for_user(..)?
available_for_user(user, windows, list, date) ==
    LET window == available(windows, date)
        allowed == allowed_for_user(user, list)
    IN  IF window.kind = "Err" THEN window
        ELSE IF allowed.kind = "Err" THEN allowed
        ELSE Available


\* AudioItem: an Episode, or a Track with its earliest_live_timestamp; the
\* item's availability and restrictions are the variables of those names
AudioItems ==
    {[kind |-> "Episode"]} \cup [kind : {"Track"}, earliest_live_timestamp : {1}]

\* AudioItem::availability (item.rs:74-86): a Track not yet live is under
\* embargo; otherwise available_for_user decides
AudioItem_availability(item, user, windows, list, date) ==
    IF item.kind = "Track" /\ date < item.earliest_live_timestamp
    THEN Unavailable("Embargo")
    ELSE available_for_user(user, windows, list, date)

(***************************************************************************)
(* get_token, step by step                                                 *)
(***************************************************************************)

PcValues ==
    {"Idle", "Lookup", "Clone", "Check", "Evict", "Send", "Await", "Push", "Done"}

TypeOK ==
    /\ guard \in Callers \cup {Free}
    /\ now \in 0 .. MaxTime
    /\ pc \in [Callers -> PcValues]
    /\ scopes \in [Callers -> RequestedScopes]
    /\ index \in [Callers -> 0 .. MaxTokens]
    /\ sent \in [Callers -> 0 .. 1]
    /\ Len(tokens) <= MaxTokens
    /\ audio_item \in AudioItems
    /\ user_data \in UserDatas
    /\ availability \in AvailabilityLists
    /\ Len(restrictions) <= MaxRestrictions
    /\ \A k \in 1 .. Len(restrictions) : restrictions[k] \in RestrictionValues
    /\ today \in 0 .. MaxDate

\* the provider as constructed, no call running
InitTokens ==
    /\ tokens = << >>
    /\ guard = Free
    /\ now = 0
    /\ pc = [c \in Callers |-> "Idle"]
    /\ scopes = [c \in Callers |-> << >>]
    /\ index = [c \in Callers |-> 0]
    /\ cached_token = [c \in Callers |-> NoToken]
    /\ token = [c \in Callers |-> NoToken]
    /\ sent = [c \in Callers |-> 0]
    /\ response = [c \in Callers |-> NoResponse]
    /\ result = [c \in Callers |-> NoResult]

\* The token provider on its own: no item is being looked at.
Init ==
    /\ InitTokens
    /\ audio_item = [kind |-> "Episode"]
    /\ user_data = [country |-> "DE", attributes |-> NoAttributes]
    /\ availability = << >>
    /\ restrictions = << >>
    /\ today = 0
    /\ verdict = NoVerdict

\* The clock advances.
Tick ==
    /\ now < MaxTime
    /\ now' = now + 1
    /\ UNCHANGED <<tokens, guard, pc, scopes, index, cached_token, token, sent,
                   response, result>>
    /\ UNCHANGED itemVars

\* get_token returns or unwinds: its locals go out of scope.
Finish(c, outcome) ==
    /\ pc' = [pc EXCEPT ![c] = "Done"]
    /\ result' = [result EXCEPT ![c] = outcome]
    /\ index' = [index EXCEPT ![c] = 0]
    /\ cached_token' = [cached_token EXCEPT ![c] = NoToken]
    /\ token' = [token EXCEPT ![c] = NoToken]

\* the call moves on to `next`, its locals as they are
Goto(c, next) ==
    /\ pc' = [pc EXCEPT ![c] = next]
    /\ UNCHANGED <<result, index, cached_token, token>>

\* get_token without the check for an empty scope list
GetToken_NoEmptyCheck(c, requested) ==
    /\ pc[c] = "Idle"
    /\ scopes' = [scopes EXCEPT ![c] = requested]
    /\ Goto(c, "Lookup")
    /\ UNCHANGED <<tokens, guard, now, sent, response>>
    /\ UNCHANGED itemVars

\* get_token(scopes) is called: an empty scope list is refused at once
\* (token.rs:46-49).
GetToken(c, requested) ==
    /\ pc[c] = "Idle"
    /\ scopes' = [scopes EXCEPT ![c] = requested]
    /\ IF Len(requested) = 0
       THEN Finish(c, Err)
       ELSE Goto(c, "Lookup")
    /\ UNCHANGED <<tokens, guard, now, sent, response>>
    /\ UNCHANGED itemVars

\* A lookup that, on a miss, joins the request another caller already has
\* outstanding for the same scopes instead of sending its own
Lookup_Dedup(c) ==
    /\ pc[c] = "Lookup"
    /\ guard = Free
    /\ LET found == find_token(tokens, scopes[c]) IN
        /\ index' = [index EXCEPT ![c] = found]
        /\ pc' = [pc EXCEPT ![c] =
                    IF found # 0 THEN "Clone"
                    ELSE IF \E d \in Callers \ {c} :
                                pc[d] = "Await" /\ scopes[d] = scopes[c]
                    THEN "Await" ELSE "Send"]
    /\ UNCHANGED <<tokens, guard, now, scopes, cached_token, token, sent,
                   response, result>>
    /\ UNCHANGED itemVars

\* self.find_token(scopes.clone()) (token.rs:51), one locked section: with
\* Some(index) the call enters the `if let` block, with None it goes on to
\* its request.
Lookup(c) ==
    /\ pc[c] = "Lookup"
    /\ guard = Free
    /\ LET found == find_token(tokens, scopes[c]) IN
        /\ index' = [index EXCEPT ![c] = found]
        /\ pc' = [pc EXCEPT ![c] = IF found = 0 THEN "Send" ELSE "Clone"]
    /\ UNCHANGED <<tokens, guard, now, scopes, cached_token, token, sent,
                   response, result>>
    /\ UNCHANGED itemVars

\* self.lock(|inner| inner.tokens[index].clone()) (token.rs:52), one locked
\* section; indexing out of bounds panics.
Clone(c) ==
    /\ pc[c] = "Clone"
    /\ guard = Free
    /\ IF index[c] > Len(tokens)
       THEN Finish(c, Panic)
       ELSE /\ cached_token' = [cached_token EXCEPT ![c] = tokens[index[c]]]
            /\ pc' = [pc EXCEPT ![c] = "Check"]
            /\ UNCHANGED <<result, index, token>>
    /\ UNCHANGED <<tokens, guard, now, scopes, sent, response>>
    /\ UNCHANGED itemVars

\* cached_token.is_expired() on the clone, outside the lock, reading the
\* clock (token.rs:53, 104); an unexpired clone is returned (token.rs:56).
\* The clone is not read again after this.
Check(c) ==
    /\ pc[c] = "Check"
    /\ LET expired == is_expired(cached_token[c], now) IN
        IF expired.panic THEN Finish(c, Panic)
        ELSE IF expired.value
        THEN /\ pc' = [pc EXCEPT ![c] = "Evict"]
             /\ cached_token' = [cached_token EXCEPT ![c] = NoToken]
             /\ UNCHANGED <<result, index, token>>
        ELSE Finish(c, Ok(cached_token[c]))
    /\ UNCHANGED <<tokens, guard, now, scopes, sent, response>>
    /\ UNCHANGED itemVars

\* An eviction after which the call looks the cache up again
Evict_ThenLookup(c) ==
    /\ pc[c] = "Evict"
    /\ guard = Free
    /\ IF index[c] > Len(tokens)
       THEN /\ Finish(c, Panic)
            /\ UNCHANGED tokens
       ELSE /\ tokens' = VecRemove(tokens, index[c])
            /\ Goto(c, "Lookup")
    /\ UNCHANGED <<guard, now, scopes, sent, response>>
    /\ UNCHANGED itemVars

\* self.lock(|inner| inner.tokens.remove(index)) (token.rs:54), one locked
\* section; Vec::remove out of bounds panics.  The call then leaves the
\* `if let` block for its request.
Evict(c) ==
    /\ pc[c] = "Evict"
    /\ guard = Free
    /\ IF index[c] > Len(tokens)
       THEN /\ Finish(c, Panic)
            /\ UNCHANGED tokens
       ELSE /\ tokens' = VecRemove(tokens, index[c])
            /\ Goto(c, "Send")
    /\ UNCHANGED <<guard, now, scopes, sent, response>>
    /\ UNCHANGED itemVars

\* A request sent with the cache's lock taken and kept
SendRequest_HoldingLock(c) ==
    /\ pc[c] = "Send"
    /\ guard = Free
    /\ sent' = [sent EXCEPT ![c] = sent[c] + 1]
    /\ pc' = [pc EXCEPT ![c] = "Await"]
    /\ index' = [index EXCEPT ![c] = 0]
    /\ UNCHANGED <<result, cached_token, token>>
    /\ guard' = c
    /\ UNCHANGED <<tokens, now, scopes, response>>
    /\ UNCHANGED itemVars

\* The request is built and sent through session().mercury().get
\* (token.rs:60-71), no lock held; the call then suspends on it.  The
\* `index` of the `if let` block is gone by now.
SendRequest(c) ==
    /\ pc[c] = "Send"
    /\ sent' = [sent EXCEPT ![c] = sent[c] + 1]
    /\ pc' = [pc EXCEPT ![c] = "Await"]
    /\ index' = [index EXCEPT ![c] = 0]
    /\ UNCHANGED <<result, cached_token, token>>
    /\ UNCHANGED <<tokens, guard, now, scopes, response>>
    /\ UNCHANGED itemVars

\* callers whose built token is on its way into the cache
Pending == Cardinality({c \in Callers : pc[c] = "Push"})

\* A completion that sends the request again when the fetch has failed
Respond_Retry(c, resp) ==
    /\ pc[c] = "Await"
    /\ resp \in AnswersFor(tokens, Pending)
    /\ LET out == HandleResponse(resp, now) IN
        IF out.built # << >>
        THEN /\ token' = [token EXCEPT ![c] = out.built[1]]
             /\ pc' = [pc EXCEPT ![c] = "Push"]
             /\ UNCHANGED <<result, index, cached_token, sent>>
        ELSE IF out.result = Err
        THEN /\ sent' = [sent EXCEPT ![c] = sent[c] + 1]
             /\ UNCHANGED <<pc, result, index, cached_token, token>>
        ELSE /\ Finish(c, out.result)
             /\ UNCHANGED sent
    /\ response' = [response EXCEPT ![c] = resp]
    /\ UNCHANGED <<tokens, guard, now, scopes>>
    /\ UNCHANGED itemVars

\* The awaited request completes with resp (token.rs:72) and the call runs
\* on, no lock held, until it ends or has built its token with Token::new,
\* which reads the clock (token.rs:74-81, 99).
Respond(c, resp) ==
    /\ pc[c] = "Await"
    /\ resp \in AnswersFor(tokens, Pending)
    /\ LET out == HandleResponse(resp, now) IN
        IF out.built # << >>
        THEN /\ token' = [token EXCEPT ![c] = out.built[1]]
             /\ pc' = [pc EXCEPT ![c] = "Push"]
             /\ UNCHANGED <<result, index, cached_token>>
        ELSE Finish(c, out.result)
    /\ response' = [response EXCEPT ![c] = resp]
    /\ UNCHANGED <<tokens, guard, now, scopes, sent>>
    /\ UNCHANGED itemVars

\* A push that stores the new token at the front of the cache
Push_Front(c) ==
    /\ pc[c] = "Push"
    /\ guard = Free
    /\ tokens' = <<token[c]>> \o tokens
    /\ Finish(c, Ok(token[c]))
    /\ UNCHANGED <<guard, now, scopes, sent, response>>
    /\ UNCHANGED itemVars

\* self.lock(|inner| inner.tokens.push(token.clone())) (token.rs:82), one
\* locked section, and Ok(token) (token.rs:83).
Push(c) ==
    /\ pc[c] = "Push"
    /\ guard = Free
    /\ tokens' = Append(tokens, token[c])
    /\ Finish(c, Ok(token[c]))
    /\ UNCHANGED <<guard, now, scopes, sent, response>>
    /\ UNCHANGED itemVars

\* The caller takes the result; it may call again.
Return(c) ==
    /\ pc[c] = "Done"
    /\ pc' = [pc EXCEPT ![c] = "Idle"]
    /\ scopes' = [scopes EXCEPT ![c] = << >>]
    /\ sent' = [sent EXCEPT ![c] = 0]
    /\ response' = [response EXCEPT ![c] = NoResponse]
    /\ result' = [result EXCEPT ![c] = NoResult]
    /\ UNCHANGED <<tokens, guard, now, index, cached_token, token>>
    /\ UNCHANGED itemVars

Next ==
    \/ Tick
    \/ \E c \in Callers : \E requested \in Requests(c) : GetToken(c, requested)
    \/ \E c \in Callers : Lookup(c)
    \/ \E c \in Callers : Clone(c)
    \/ \E c \in Callers : Check(c)
    \/ \E c \in Callers : Evict(c)
    \/ \E c \in Callers : SendRequest(c)
    \/ \E c \in Callers, resp \in Responses : Respond(c, resp)
    \/ \E c \in Callers : Push(c)
    \/ \E c \in Callers : Return(c)

Spec == Init /\ [][Next]_vars

\* The same program with one caller at a time: a call starts only when no
\* other call is running.
Sequential(c) == \A d \in Callers \ {c} : pc[d] \in {"Idle", "Done"}

NextSeq ==
    \/ Tick
    \/ \E c \in Callers : \E requested \in Requests(c) :
        Sequential(c) /\ GetToken(c, requested)
    \/ \E c \in Callers : Lookup(c)
    \/ \E c \in Callers : Clone(c)
    \/ \E c \in Callers : Check(c)
    \/ \E c \in Callers : Evict(c)
    \/ \E c \in Callers : SendRequest(c)
    \/ \E c \in Callers, resp \in Responses : Respond(c, resp)
    \/ \E c \in Callers : Push(c)
    \/ \E c \in Callers : Return(c)

SpecSeq == Init /\ [][NextSeq]_vars

\* The availability functions of item.rs on any user, item and date.
InitItem ==
    /\ InitTokens
    /\ audio_item \in AudioItems
    /\ user_data \in UserDatas
    /\ availability \in AvailabilityLists
    /\ restrictions \in RestrictionLists(MaxRestrictions)
    /\ today \in 0 .. MaxDate
    /\ verdict = NoVerdict

\* allowed_for_user(user_data, restrictions)
AllowedForUser ==
    /\ verdict' = Verdict("allowed_for_user", allowed_for_user(user_data, restrictions))
    /\ UNCHANGED <<audio_item, user_data, availability, restrictions, today>>
    /\ UNCHANGED tokenVars

\* available(availability)
AvailableNow ==
    /\ verdict' = Verdict("available", available(availability, today))
    /\ UNCHANGED <<audio_item, user_data, availability, restrictions, today>>
    /\ UNCHANGED tokenVars

\* available_for_user(user_data, availability, restrictions)
AvailableForUser ==
    /\ verdict' = Verdict("available_for_user",
                          available_for_user(user_data, availability, restrictions, today))
    /\ UNCHANGED <<audio_item, user_data, availability, restrictions, today>>
    /\ UNCHANGED tokenVars

\* audio_item.availability(session)
Availability ==
    /\ verdict' = Verdict("availability",
                          AudioItem_availability(audio_item, user_data, availability,
                                                 restrictions, today))
    /\ UNCHANGED <<audio_item, user_data, availability, restrictions, today>>
    /\ UNCHANGED tokenVars

NextItem ==
    \/ AllowedForUser
    \/ AvailableNow
    \/ AvailableForUser
    \/ Availability

SpecItem == InitItem /\ [][NextItem]_vars

(***************************************************************************)
(* Vocabulary of the properties, stated on sets and on the clock rather    *)
(* than through the code's loops and its Duration arithmetic.              *)
(***************************************************************************)

\* the scopes a list names
ScopeSet(list) == {list[k] : k \in 1 .. Len(list)}

\* the token's scopes are a superset of the requested scopes
Covers(t, requested) == ScopeSet(requested) \subseteq ScopeSet(t.scopes)

\* valid for use: now < issued_at + lifetime - EXPIRY_THRESHOLD; a lifetime
\* at the top of the u64 range ends after every instant of the model
Unexpired(t, instant) ==
    IF IsSecs(t.expires_in)
    THEN instant < t.timestamp + t.expires_in.secs - EXPIRY_THRESHOLD
    ELSE TRUE

\* the position of the earliest-stored entry covering `requested`, 0 if none
FirstCovering(cache, requested) ==
    LET hits == {i \in 1 .. Len(cache) : Covers(cache[i], requested)}
    IN  IF hits = {} THEN 0 ELSE CHOOSE i \in hits : \A j \in hits : i <= j

\* caller c takes a step of its call
Steps(c) == pc'[c] # pc[c]

(***************************************************************************)
(* C1                                                                      *)
(***************************************************************************)

\* C1 as stated: whenever the cache holds an unexpired token covering the
\* requested scopes, get_token returns it and issues no request, also when an
\* earlier-stored covering entry is expired.  With one caller at a time the
\* cache is touched by the running call only, so a call that is about to send
\* or has sent its request while the cache holds an unexpired covering token
\* makes a request the claim forbids.
C1_Original ==
    \A c \in Callers :
        pc[c] \in {"Send", "Await"} =>
            ~ \E i \in 1 .. Len(tokens) :
                Covers(tokens[i], scopes[c]) /\ Unexpired(tokens[i], now)

\* C1 amended: with no other call running, while the earliest-stored entry
\* covering the requested scopes is unexpired, get_token goes from its lookup
\* to the clone to the expiry check and ends there: it sends no request and
\* leaves the cache as it is, and it returns that very entry (when the
\* entry's lifetime is at the top of the u64 range the expiry check aborts
\* the call instead, see C6).
C1_FirstCoveringReturned ==
    [][\A c \in Callers :
        LET i == FirstCovering(tokens, scopes[c]) IN
            (/\ Steps(c)
             /\ pc[c] \in {"Lookup", "Clone", "Check"}
             /\ i # 0
             /\ Unexpired(tokens[i], now))
            => /\ pc'[c] \in {"Clone", "Check", "Done"}
               /\ pc[c] = "Check" => cached_token[c] = tokens[i]
               /\ pc'[c] = "Done" =>
                    result'[c] = IF IsSecs(tokens[i].expires_in)
                                 THEN Ok(tokens[i]) ELSE Panic
               /\ sent'[c] = 0
               /\ tokens' = tokens]_vars

\* A call has returned the second entry of the cache, the first one covering
\* its scopes and still unexpired, without a request.
C1_Witness ==
    \E c \in Callers :
        /\ pc[c] = "Done"
        /\ sent[c] = 0
        /\ Len(tokens) = 2
        /\ FirstCovering(tokens, scopes[c]) = 2
        /\ Unexpired(tokens[2], now)
        /\ result[c] = Ok(tokens[2])

(***************************************************************************)
(* C2                                                                      *)
(***************************************************************************)

\* the token's limit is reached: now >= issued_at + lifetime - EXPIRY_THRESHOLD
AtOrPastLimit(t, instant) == ~Unexpired(t, instant)

\* C2 as stated: a call whose lookup matched a token T with
\* now >= issued_at + lifetime - 10s, the boundary instant included, does not
\* return T and goes on to evict it.  (A call that aborts inside is_expired
\* returns nothing either; that abort is the subject of C5, and the statement
\* is read here on the calls that run on.)
C2_Original ==
    [][\A c \in Callers :
        (/\ Steps(c)
         /\ pc[c] = "Check"
         /\ AtOrPastLimit(cached_token[c], now))
        => /\ result'[c].kind # "Ok"
           /\ result'[c] # Panic => pc'[c] = "Evict"]_vars

(***************************************************************************)
(* C3                                                                      *)
(***************************************************************************)

\* C3: a call with an empty scope list ends at once with Err(MercuryError),
\* the code's one error value; it sends no request and leaves the cache as it
\* was, whatever the cache holds.
C3_EmptyScopeRefused ==
    /\ [](\A c \in Callers :
            (scopes[c] = << >> /\ pc[c] # "Idle")
            => (pc[c] = "Done" /\ result[c] = Err /\ sent[c] = 0
                /\ response[c] = NoResponse))
    /\ [][\A c \in Callers :
            (pc[c] = "Idle" /\ Steps(c) /\ scopes'[c] = << >>)
            => (pc'[c] = "Done" /\ result'[c] = Err /\ tokens' = tokens
                /\ sent' = sent)]_vars

\* An empty request was refused while the cache held a token fit for use.
C3_Witness ==
    \E c \in Callers :
        /\ pc[c] = "Done"
        /\ scopes[c] = << >>
        /\ result[c] = Err
        /\ \E i \in 1 .. Len(tokens) : Unexpired(tokens[i], now)

(***************************************************************************)
(* C4                                                                      *)
(***************************************************************************)

\* C4 as stated: a response with status 200 and an empty payload collection
\* ends the call with the error value: no panic, no token, nothing inserted.
C4_Original ==
    \A c \in Callers :
        (/\ pc[c] = "Done"
         /\ response[c].kind = "response"
         /\ response[c].status_code = STATUS_OK
         /\ response[c].payload = << >>)
        => result[c] = Err

(***************************************************************************)
(* C5                                                                      *)
(***************************************************************************)

\* C5 as stated: a token built from a payload whose expiresIn is below 10
\* reports is_expired() = true right after construction, the subtraction
\* neither underflowing nor aborting.
C5_Original ==
    \A c \in Callers :
        (/\ pc[c] = "Push"
         /\ IsSecs(token[c].expires_in)
         /\ token[c].expires_in.secs < EXPIRY_THRESHOLD
         /\ token[c].timestamp = now)
        => is_expired(token[c], now) = [panic |-> FALSE, value |-> TRUE]

(***************************************************************************)
(* C6                                                                      *)
(***************************************************************************)

\* C6 as stated: one caller at a time.  A call with non-empty scopes that
\* finds the cache empty sends one request, and when that fetch succeeds the
\* cache holds the one token it returns.  A second call with the same scopes,
\* for as long as that token covers them and is unexpired, goes from lookup
\* to clone to expiry check and returns the token, with no request and the
\* cache untouched.
C6_Original ==
    [][\A c \in Callers : Steps(c) =>
        /\ (pc[c] = "Lookup" /\ tokens = << >>)
            => (pc'[c] = "Send" /\ tokens' = tokens)
        /\ (pc[c] = "Send" /\ tokens = << >>)
            => (pc'[c] = "Await" /\ sent'[c] = 1 /\ tokens' = tokens)
        /\ (pc[c] = "Push" /\ tokens = << >>)
            => (sent'[c] = 1 /\ result'[c].kind = "Ok"
                /\ tokens' = <<result'[c].token>>)
        /\ \A d \in Callers \ {c} :
            (/\ pc[d] = "Done" /\ result[d].kind = "Ok" /\ sent[d] = 1
             /\ tokens = <<result[d].token>>
             /\ pc[c] \in {"Lookup", "Clone", "Check"}
             /\ scopes[c] = scopes[d]
             /\ Covers(tokens[1], scopes[c])
             /\ Unexpired(tokens[1], now))
            => /\ pc'[c] \in {"Clone", "Check", "Done"}
               /\ pc'[c] = "Done" => result'[c] = Ok(tokens[1])
               /\ sent'[c] = 0
               /\ tokens' = tokens]_vars

(***************************************************************************)
(* C7                                                                      *)
(***************************************************************************)

\* C7: while a call is suspended on its request the cache's lock is free, and
\* every other call's pending cache operation (lookup, read of the candidate,
\* eviction, insertion of a fetched token) can be taken at once.
C7_NoLockAcrossAwait ==
    \A c \in Callers :
        pc[c] = "Await" =>
            /\ guard = Free
            /\ \A d \in Callers \ {c} :
                /\ pc[d] = "Lookup" => ENABLED Lookup(d)
                /\ pc[d] = "Clone" => ENABLED Clone(d)
                /\ pc[d] = "Evict" => ENABLED Evict(d)
                /\ pc[d] = "Push" => ENABLED Push(d)

\* One call is suspended on its request while another is about to evict an
\* entry of the cache.
C7_Witness ==
    \E c \in Callers, d \in Callers :
        /\ c # d
        /\ pc[c] = "Await"
        /\ pc[d] = "Evict"
        /\ index[d] \in 1 .. Len(tokens)

(***************************************************************************)
(* C8                                                                      *)
(***************************************************************************)

\* C8: a response whose status is not 200 ends the call with
\* Err(MercuryError), whatever its payload holds, and the cache is what it was
\* just before the response was handled.
C8_FailureStatus ==
    [][\A c \in Callers :
        (/\ pc[c] = "Await"
         /\ Steps(c)
         /\ response'[c].kind = "response"
         /\ response'[c].status_code # STATUS_OK)
        => (pc'[c] = "Done" /\ result'[c] = Err /\ tokens' = tokens)]_vars

\* A call failed on a non-200 response whose payload held a well-formed token.
C8_Witness ==
    \E c \in Callers :
        /\ pc[c] = "Done"
        /\ response[c].kind = "response"
        /\ response[c].status_code # STATUS_OK
        /\ BearsToken(response[c])
        /\ result[c] = Err

(***************************************************************************)
(* C9                                                                      *)
(***************************************************************************)

\* C9: the lookup selects the lowest position whose token covers the
\* requested scopes, whatever the other covering tokens look like, and None
\* when no token covers them.
C9_FirstMatch ==
    [][\A c \in Callers :
        (pc[c] = "Lookup" /\ Steps(c))
        => /\ index'[c] = FirstCovering(tokens, scopes[c])
           /\ pc'[c] = IF index'[c] = 0 THEN "Send" ELSE "Clone"]_vars

\* A lookup selected the first of two covering tokens although the second has
\* fewer scopes and is fresher.
C9_Witness ==
    \E c \in Callers :
        /\ pc[c] = "Clone"
        /\ index[c] = 1
        /\ Len(tokens) = 2
        /\ Covers(tokens[1], scopes[c])
        /\ Covers(tokens[2], scopes[c])
        /\ Len(tokens[2].scopes) < Len(tokens[1].scopes)
        /\ tokens[2].timestamp > tokens[1].timestamp

(***************************************************************************)
(* C10                                                                     *)
(***************************************************************************)

MaxScopes == 2

\* every scope list of up to MaxScopes names, one of them never granted
ScopeLists == UNION {[1 .. n -> Scope \cup {"c"}] : n \in 0 .. MaxScopes}

\* C10: for every token get_token builds from a payload, and so for every
\* token that is ever cached, and for every scope list R, in_scopes(R) is true
\* exactly when every element of R is among the token's scopes.
C10_InScopes ==
    [][\A c \in Callers :
        (pc[c] = "Await" /\ pc'[c] = "Push")
        => \A requested \in ScopeLists :
            in_scopes(token'[c], requested) <=> Covers(token'[c], requested)]_vars

\* The cache holds a token with scopes {a, b}: it covers [a], [a, b] and the
\* empty list, and not [c].
C10_Witness ==
    \E i \in 1 .. Len(tokens) :
        /\ ScopeSet(tokens[i].scopes) = {"a", "b"}
        /\ in_scopes(tokens[i], <<"a">>)
        /\ in_scopes(tokens[i], <<"a", "b">>)
        /\ in_scopes(tokens[i], << >>)
        /\ ~in_scopes(tokens[i], <<"c">>)

(***************************************************************************)
(* C11                                                                     *)
(***************************************************************************)

\* C11: a call that has removed its expired candidate from the cache goes on
\* to send its request, waits for the answer, caches the token it may have
\* built from it, and ends: it never goes back to a lookup or to another
\* candidate, whatever else the cache holds.
C11_EvictThenFetch ==
    [][\A c \in Callers : Steps(c) =>
        /\ (pc[c] = "Evict" /\ tokens' # tokens)
            => (pc'[c] = "Send" /\ index'[c] = index[c])
        /\ pc[c] = "Send"
            => (pc'[c] = "Await" /\ sent'[c] = sent[c] + 1 /\ tokens' = tokens)
        /\ pc[c] = "Await" => pc'[c] \in {"Push", "Done"}
        /\ pc[c] = "Push" => pc'[c] = "Done"]_vars

\* A call has evicted its candidate and is about to send its request while
\* the cache holds an unexpired token covering its scopes.
C11_Witness ==
    \E c \in Callers :
        /\ pc[c] = "Send"
        /\ index[c] # 0
        /\ \E i \in 1 .. Len(tokens) :
            Covers(tokens[i], scopes[c]) /\ Unexpired(tokens[i], now)

(***************************************************************************)
(* C12                                                                     *)
(***************************************************************************)

\* C12 as stated: in every interleaving, the index a call got from its lookup
\* is a position of the cache when the call uses it to read the candidate and
\* to remove it.
C12_Original ==
    \A c \in Callers :
        pc[c] \in {"Clone", "Evict"} => index[c] \in 1 .. Len(tokens)

(***************************************************************************)
(* C13                                                                     *)
(***************************************************************************)

\* C13 as stated: in every interleaving, a token that get_token returns from
\* the cache, without a request of its own, covers the scopes it was called
\* with.
C13_Original ==
    \A c \in Callers :
        (pc[c] = "Done" /\ result[c].kind = "Ok" /\ sent[c] = 0)
        => Covers(result[c].token, scopes[c])

(***************************************************************************)
(* C14                                                                     *)
(***************************************************************************)

\* C14 as stated: an entry is removed only by a call whose lookup matched
\* that very entry and found it expired; in every interleaving no unexpired
\* token and no token other than the matched one is removed.  So the entry
\* that an eviction removes covers the evicting call's scopes and has reached
\* its limit.
C14_Original ==
    [][\A c \in Callers :
        (pc[c] = "Evict" /\ Steps(c) /\ tokens' # tokens)
        => /\ Covers(tokens[index[c]], scopes[c])
           /\ AtOrPastLimit(tokens[index[c]], now)]_vars

(***************************************************************************)
(* C15                                                                     *)
(***************************************************************************)

\* C15: there is no single-flight deduplication.  A call whose lookup finds
\* no covering entry goes on to send its own request, whatever requests other
\* callers have outstanding, and a call answered with a token caches it,
\* whatever the cache holds by then; so two concurrent calls for the same
\* scopes can both be waiting for the keymaster at once, and both answers end
\* up in the cache.
C15_NoSingleFlight ==
    [][\A c \in Callers : Steps(c) =>
        /\ (pc[c] = "Lookup" /\ FirstCovering(tokens, scopes[c]) = 0)
            => pc'[c] = "Send"
        /\ pc[c] = "Send" => (pc'[c] = "Await" /\ sent'[c] = 1)
        /\ pc[c] = "Push" => Len(tokens') = Len(tokens) + 1]_vars

\* Both callers are waiting for the keymaster at once, each on a request of
\* its own for the same scopes, and the keymaster may answer both with a
\* token.
C15_Witness ==
    /\ \A c \in Callers : pc[c] = "Await" /\ sent[c] = 1
    /\ scopes["c1"] = scopes["c2"]
    /\ Len(tokens) + Cardinality(Callers) <= MaxTokens

(***************************************************************************)
(* C16                                                                     *)
(***************************************************************************)

\* C16: a fetch answered with status 200 and a first payload element that
\* decodes builds one token from the decoded fields, stamped with the time
\* of its construction; the call then appends exactly that token at the end
\* of the cache, leaving the entries already there as they were, and returns
\* a token equal to the one appended.
C16_AppendOnSuccess ==
    [][\A c \in Callers : Steps(c) =>
        /\ (/\ pc[c] = "Await"
            /\ response'[c].kind = "response"
            /\ response'[c].status_code = STATUS_OK
            /\ BearsToken(response'[c]))
            => /\ pc'[c] = "Push"
               /\ tokens' = tokens
               /\ token'[c] =
                    [expires_in |-> response'[c].payload[1].expiresIn,
                     access_token |-> response'[c].payload[1].accessToken,
                     scopes |-> response'[c].payload[1].scope,
                     timestamp |-> now]
        /\ pc[c] = "Push"
            => /\ pc'[c] = "Done"
               /\ tokens' = Append(tokens, token[c])
               /\ result'[c] = Ok(token[c])]_vars

\* a fetched token has been appended behind an entry that was already cached
C16_Witness ==
    \E c \in Callers :
        /\ pc[c] = "Done"
        /\ sent[c] = 1
        /\ result[c].kind = "Ok"
        /\ Len(tokens) = 2
        /\ tokens[2] = result[c].token
        /\ tokens[1] # tokens[2]

(***************************************************************************)
(* C17                                                                     *)
(***************************************************************************)

\* the part of the state that belongs to caller c's running call
CallState(c) == <<pc[c], sent[c], index[c], result[c], response[c]>>

\* C17: a call sends at most one request.  Whatever the keymaster answers,
\* the call goes on with that answer only: it sends nothing more and does not
\* look the cache up again; a failed fetch ends the call at once and leaves
\* the cache as it was.
C17_AtMostOneRequest ==
    [][\A c \in Callers :
        /\ sent'[c] <= 1
        /\ (pc[c] = "Await" /\ CallState(c)' # CallState(c))
            => /\ pc'[c] \in {"Push", "Done"}
               /\ sent'[c] = sent[c]
               /\ tokens' = tokens
               /\ pc'[c] = "Done" => result'[c].kind # "Ok"
        /\ (pc[c] = "Push" /\ Steps(c))
            => (pc'[c] = "Done" /\ sent'[c] = sent[c])]_vars

\* a call has ended with the error of its one failed fetch
C17_Witness ==
    \E c \in Callers :
        /\ pc[c] = "Done"
        /\ sent[c] = 1
        /\ result[c] = Err
        /\ response[c] # NoResponse

(***************************************************************************)
(* C18                                                                     *)
(***************************************************************************)

\* C18 as stated: every call ends in exactly one of ReturnCached,
\* ReturnFetched or Fail(reason).  A call that has ended has then either
\* returned a token, from the cache without a request or from its fetch, or
\* returned the error.
C18_Original ==
    \A c \in Callers :
        pc[c] = "Done" =>
            \/ result[c].kind = "Ok" /\ sent[c] \in {0, 1}
            \/ result[c] = Err

(***************************************************************************)
(* C19                                                                     *)
(***************************************************************************)

\* the countries a list names
CountrySet(list) == {list[k] : k \in 1 .. Len(list)}

\* the positions of the restrictions that name the catalogue and carry an
\* allow-list or a forbid-list
Deciding(list, catalogue) ==
    {k \in 1 .. Len(list) :
        /\ \E j \in 1 .. Len(list[k].catalogue_strs) : list[k].catalogue_strs[j] = catalogue
        /\ list[k].countries_allowed # None \/ list[k].countries_forbidden # None}

\* what one restriction says about a country
Decision(restriction, country) ==
    IF restriction.countries_allowed # None
    THEN IF country \in CountrySet(restriction.countries_allowed.value)
         THEN Available ELSE Unavailable("NotWhitelisted")
    ELSE IF country \in CountrySet(restriction.countries_forbidden.value)
         THEN Unavailable("Blacklisted") ELSE Available

\* the user's catalogue: the "catalogue" attribute, "premium" without one
CatalogueOf(user) ==
    IF \E v \in {"free", "premium"} : user.attributes = [k \in {"catalogue"} |-> v]
    THEN CHOOSE v \in {"free", "premium"} : user.attributes = [k \in {"catalogue"} |-> v]
    ELSE "premium"

\* C19: allowed_for_user decides by the first restriction, in list order,
\* that names the user's catalogue ("premium" when the user has no catalogue
\* attribute) and carries an allow-list or a forbid-list: with an allow-list
\* Ok iff the country is on it, else NotWhitelisted; with only a forbid-list
\* Blacklisted iff the country is on it, else Ok; later restrictions are not
\* consulted; Ok when there is no such restriction.
C19_FirstDecidingRestriction ==
    verdict.of = "allowed_for_user" =>
        LET deciding == Deciding(restrictions, CatalogueOf(user_data))
        IN  IF deciding = {} THEN verdict.value = Available
            ELSE LET first == CHOOSE k \in deciding : \A j \in deciding : k <= j
                 IN  verdict.value = Decision(restrictions[first], user_data.country)

\* a user without catalogue attribute: the first restriction for "premium"
\* that carries a list has a forbid-list only, without the user's country,
\* and has decided Ok; the restriction after it would have refused the
\* country by its allow-list
C19_Witness ==
    /\ verdict = Verdict("allowed_for_user", Available)
    /\ user_data.attributes = NoAttributes
    /\ \E k \in 1 .. Len(restrictions) - 1 :
        /\ Deciding(restrictions, "premium") \cap (1 .. k) = {k}
        /\ restrictions[k].countries_allowed = None
        /\ k + 1 \in Deciding(restrictions, "premium")
        /\ Decision(restrictions[k + 1], user_data.country) = Unavailable("NotWhitelisted")

(***************************************************************************)
(* C20                                                                     *)
(***************************************************************************)

\* C20: available_for_user looks at the availability windows before the
\* country restrictions: with a non-empty availability list of which no
\* window has started the result is Embargo whatever the restrictions say;
\* otherwise it is exactly the result of allowed_for_user.
C20_WindowsBeforeRestrictions ==
    verdict.of = "available_for_user" =>
        IF /\ availability # << >>
           /\ \A k \in 1 .. Len(availability) : today < availability[k].start
        THEN verdict.value = Unavailable("Embargo")
        ELSE verdict.value = allowed_for_user(user_data, restrictions)

\* an item under embargo whose restrictions refuse the user as well
C20_Witness ==
    /\ verdict = Verdict("available_for_user", Unavailable("Embargo"))
    /\ allowed_for_user(user_data, restrictions).kind = "Err"

====
